---- MODULE Spec2Model ----
(***************************************************************************)
(* AgendaBuilder (src/src/agenda_builder/agenda_builder.py): the builder's *)
(* declarations, its memoized compilation and the grid that build()        *)
(* quantizes the declared time ranges onto.                                *)
(*                                                                         *)
(* Encoding of Python values:                                              *)
(*   None                 [none |-> TRUE]                                  *)
(*   datetime.date        [ordinal |-> n]    (date.toordinal())            *)
(*   datetime.time        [hour |-> h, minute |-> m]                       *)
(*   datetime.datetime    minutes since ordinal 0, 00:00 (an integer)      *)
(*   timedelta(minutes=g) the integer g                                    *)
(*   a date string        [fmt |-> the format it is written in,            *)
(*                         ordinal |-> the day it names]                   *)
(*   a time string "HH:MM" [hh |-> the digits before the colon,            *)
(*                          mm |-> the digits after it]                    *)
(*   a float q = a / b    [num |-> a, den |-> b]                           *)
(*   grid[r][c]           grid[<<r, c>>], r and c counted from 0           *)
(***************************************************************************)
EXTENDS Integers, Sequences, FiniteSets, TLC

VARIABLES
    pref_start_date, pref_end_date, pref_start_time, pref_end_time,
    pending_events, events, external_eventids, event_counter,
    colors, special_events, title,
    _cached_compilation,
    next_oid,          \* identity of the next CompiledAgenda object allocated
    last_call,         \* the last call made on the builder and its outcome
    held,              \* the CompiledAgenda object the caller got from its last build
    issued,            \* internal id -> the external key add_event allocated it for (None: no key)
    declared_since,    \* add_event, extend_event or set_title was called since that build
    rendered           \* the documents the last generate_latex_* calls returned

vars == <<pref_start_date, pref_end_date, pref_start_time, pref_end_time,
          pending_events, events, external_eventids, event_counter,
          colors, special_events, title, _cached_compilation,
          next_oid, last_call, held, issued, declared_since, rendered>>

prefs == <<pref_start_date, pref_end_date, pref_start_time, pref_end_time>>

-----------------------------------------------------------------------------
(* Bounds of the model *)

MaxPending == 2     \* declarations (add_event / extend_event calls) recorded
MaxEvents == 2      \* internal ids allocated
MaxBuilds == 2      \* CompiledAgenda objects constructed
MaxSpecial == 1     \* special events appended

-----------------------------------------------------------------------------
(* Python values *)

None == [none |-> TRUE]

Date(n) == [ordinal |-> n]
Time(h, m) == [hour |-> h, minute |-> m]
DateStr(f, n) == [fmt |-> f, ordinal |-> n]
TimeStr(h, m) == [hh |-> h, mm |-> m]

MinutesPerDay == 1440

\* a reference to the object that an attribute of the builder names
Ref(attr) == [ref |-> attr]

Ok(v) == [kind |-> "ok", value |-> v]
Raise(e) == [kind |-> "raise", value |-> e]

\* datetime.datetime.strptime(s, fmt).date(): the string must be written in fmt
strptime_date(d_str, f) ==
    IF d_str.fmt = f THEN Ok(Date(d_str.ordinal)) ELSE Raise("ValueError")

\* the date parse of build(): "%Y%m%d" first, "%Y-%m-%d" when that raises
parse_date(d_str) ==
    IF strptime_date(d_str, "%Y%m%d").kind = "ok"
    THEN strptime_date(d_str, "%Y%m%d")
    ELSE strptime_date(d_str, "%Y-%m-%d")

\* datetime.datetime.strptime(s, "%H:%M").time()
parse_time(t_str) ==
    IF t_str.hh \in 0..23 /\ t_str.mm \in 0..59
    THEN Ok(Time(t_str.hh, t_str.mm))
    ELSE Raise("ValueError")

\* hour * 60 + minute
mins(t) == t.hour * 60 + t.minute

\* datetime.datetime.combine(d, t)
combine(d, t) == d.ordinal * MinutesPerDay + mins(t)

\* datetime.time()
time_of(dt) == Time((dt % MinutesPerDay) \div 60, dt % 60)

Min(S) == CHOOSE x \in S : \A y \in S : x <= y
Max(S) == CHOOSE x \in S : \A y \in S : x >= y

\* min() / max() of a list of dates, of a list of times
min_date(S) == Date(Min({d.ordinal : d \in S}))
max_date(S) == Date(Max({d.ordinal : d \in S}))
min_time(S) == CHOOSE t \in S : mins(t) = Min({mins(u) : u \in S})
max_time(S) == CHOOSE t \in S : mins(t) = Max({mins(u) : u \in S})

\* timedelta.total_seconds() and timedelta.seconds of timedelta(minutes=g)
total_seconds(g) == g * 60
seconds(g) == (g * 60) % (MinutesPerDay * 60)

\* rounding the quotient down instead of up
floor_div(a, b) == a \div b

\* int(math.ceil(a / b)) for a >= 0, b > 0
ceil_div(a, b) == (a + b - 1) \div b

-----------------------------------------------------------------------------
(* build(): parsing the pending declarations *)

\* one (d_str, s_str, e_str) entry parsed; Raise when a strptime raises
parse_entry(entry) ==
    LET d == parse_date(entry[1])
        s == parse_time(entry[2])
        e == IF entry[3] = None THEN Ok(None) ELSE parse_time(entry[3])
    IN  IF d.kind = "raise" \/ s.kind = "raise" \/ e.kind = "raise"
        THEN Raise("ValueError")
        ELSE Ok([d |-> d.value, s |-> s.value, e |-> e.value])

\* the entries the parse loop does not skip
entries_of(ranges) == SelectSeq(ranges, LAMBDA entry : Len(entry) = 3)

\* some entry of some pending declaration does not parse
parse_raises(pending) ==
    \E i \in 1..Len(pending) :
        \E j \in 1..Len(entries_of(pending[i].ranges)) :
            parse_entry(entries_of(pending[i].ranges)[j]).kind = "raise"

\* parsed_pending_events, given that nothing raises
parse_pending(pending) ==
    [i \in 1..Len(pending) |->
        [internal_id |-> pending[i].internal_id,
         ranges |-> [j \in 1..Len(entries_of(pending[i].ranges)) |->
                        parse_entry(entries_of(pending[i].ranges)[j]).value]]]

\* all_dates and all_times, as sets: only their min() and max() are used
all_dates(parsed) ==
    UNION {{parsed[i].ranges[j].d : j \in 1..Len(parsed[i].ranges)} :
              i \in 1..Len(parsed)}

all_times(parsed) ==
    UNION {{parsed[i].ranges[j].s : j \in 1..Len(parsed[i].ranges)}
           \cup {parsed[i].ranges[j].e :
                   j \in {k \in 1..Len(parsed[i].ranges) : parsed[i].ranges[k].e # None}} :
              i \in 1..Len(parsed)}

-----------------------------------------------------------------------------
(* build(): bounds, grid size *)

\* the bounds and the size of the grid: start/end date and time, num_days, num_slots
bounds_of(parsed, g, today) ==
    LET dates == all_dates(parsed)
        times == all_times(parsed)
        start_date == IF pref_start_date # None THEN pref_start_date
                      ELSE IF dates # {} THEN min_date(dates) ELSE today
        end_date == IF pref_end_date # None THEN pref_end_date
                    ELSE IF dates # {} THEN max_date(dates) ELSE start_date
        start_time == IF pref_start_time # None THEN pref_start_time
                      ELSE IF times # {} THEN min_time(times) ELSE Time(8, 0)
        end_time == IF pref_end_time # None THEN pref_end_time
                    ELSE IF times # {} THEN max_time(times) ELSE Time(18, 0)
        t_start == combine(today, start_time)
        t_end0 == combine(today, end_time)
        t_end == IF t_end0 <= t_start THEN t_end0 + MinutesPerDay ELSE t_end0
        diff_seconds == (t_end - t_start) * 60
    IN  [start_date |-> start_date, end_date |-> end_date,
         start_time |-> start_time, end_time |-> end_time,
         granularity |-> g,
         num_days |-> (end_date.ordinal - start_date.ordinal) + 1,
         num_slots |-> ceil_div(diff_seconds, total_seconds(g))]

\* grid = [[None for _ in range(num_days)] for _ in range(num_slots)]
empty_grid(num_slots, num_days) ==
    [rc \in (0..(num_slots - 1)) \X (0..(num_days - 1)) |-> None]

-----------------------------------------------------------------------------
(* build(): populating the grid *)

\* _get_day_index that moves a date outside the grid to the nearest column
_get_day_index_clamped(date_obj, b) ==
    LET delta == date_obj.ordinal - b.start_date.ordinal
    IN  IF b.num_days <= 0 THEN None
        ELSE IF delta < 0 THEN [int |-> 0]
        ELSE IF delta >= b.num_days THEN [int |-> b.num_days - 1]
        ELSE [int |-> delta]

_get_day_index(date_obj, b) ==
    LET delta == date_obj.ordinal - b.start_date.ordinal
    IN  IF 0 <= delta /\ delta < b.num_days THEN [int |-> delta] ELSE None

\* _get_time_index that adds 24 hours to every clock time
_get_time_index_wrapped(time_obj, b) ==
    LET start_mins == mins(b.start_time)
        target_mins == mins(time_obj) + 24 * 60
        diff == target_mins - start_mins
    IN  IF diff >= 0 THEN [num |-> diff, den |-> seconds(b.granularity) \div 60]
        ELSE None

_get_time_index(time_obj, b) ==
    LET start_mins == mins(b.start_time)
        target0 == mins(time_obj)
        target_mins == IF target0 < start_mins THEN target0 + 24 * 60 ELSE target0
        diff == target_mins - start_mins
    IN  IF diff >= 0 THEN [num |-> diff, den |-> seconds(b.granularity) \div 60]
        ELSE None

\* rounding up instead of down
floor_as_ceil(q) == (q.num + q.den - 1) \div q.den

\* int(math.floor(q)), q = num / den with den > 0
floor(q) == q.num \div q.den

\* write_slot that leaves an occupied cell as it is
write_slot_keep_first(grid, internal_id, d, curr_dt, b) ==
    LET d_idx == _get_day_index(d, b)
        t_idx_float == _get_time_index(time_of(curr_dt), b)
    IN  IF d_idx # None /\ t_idx_float # None
        THEN LET t_idx_int == floor(t_idx_float)
             IN  IF 0 <= t_idx_int /\ t_idx_int < b.num_slots
                    /\ grid[<<t_idx_int, d_idx.int>>] = None
                 THEN [grid EXCEPT ![<<t_idx_int, d_idx.int>>] =
                          [id |-> internal_id, frac_start |-> t_idx_float]]
                 ELSE grid
        ELSE grid

\* the body of the while loop for one slot timestamp curr_dt of a range on date d
write_slot(grid, internal_id, d, curr_dt, b) ==
    LET d_idx == _get_day_index(d, b)
        t_idx_float == _get_time_index(time_of(curr_dt), b)
    IN  IF d_idx # None /\ t_idx_float # None
        THEN LET t_idx_int == floor(t_idx_float)
             IN  IF 0 <= t_idx_int /\ t_idx_int < b.num_slots
                 THEN [grid EXCEPT ![<<t_idx_int, d_idx.int>>] =
                          [id |-> internal_id, frac_start |-> t_idx_float]]
                 ELSE grid
        ELSE grid

\* write_range that also writes a slot timestamp equal to the limit
RECURSIVE write_range_inclusive(_, _, _, _, _, _)
write_range_inclusive(grid, internal_id, d, curr_dt, limit_dt, b) ==
    IF curr_dt <= limit_dt
    THEN write_range_inclusive(write_slot(grid, internal_id, d, curr_dt, b),
                               internal_id, d, curr_dt + b.granularity, limit_dt, b)
    ELSE grid

\* while curr_dt < limit_dt: ...; curr_dt += granularity
RECURSIVE write_range(_, _, _, _, _, _)
write_range(grid, internal_id, d, curr_dt, limit_dt, b) ==
    IF curr_dt < limit_dt
    THEN write_range(write_slot(grid, internal_id, d, curr_dt, b),
                     internal_id, d, curr_dt + b.granularity, limit_dt, b)
    ELSE grid

\* for d, s, e in item['ranges']: ... from the k-th range on
RECURSIVE write_item(_, _, _, _)
write_item(grid, item, k, b) ==
    IF k > Len(item.ranges) THEN grid
    ELSE LET r == item.ranges[k]
             curr_dt == combine(r.d, r.s)
             limit_dt == IF r.e # None THEN combine(r.d, r.e)
                         ELSE curr_dt + b.granularity
         IN  write_item(write_range(grid, item.internal_id, r.d, curr_dt, limit_dt, b),
                        item, k + 1, b)

\* for item in parsed_pending_events: ... from the i-th item on
RECURSIVE populate(_, _, _, _)
populate(grid, parsed, i, b) ==
    IF i > Len(parsed) THEN grid
    ELSE populate(write_item(grid, parsed[i], 1, b), parsed, i + 1, b)

\* the CompiledAgenda constructed by build(). Its events, colors and
\* special_events are references to the builder's own dict and list objects.
compile(pending, g, today, oid) ==
    LET parsed == parse_pending(pending)
        b == bounds_of(parsed, g, today)
    IN  [oid |-> oid, title |-> title,
         start_date |-> b.start_date, end_date |-> b.end_date,
         start_time |-> b.start_time, end_time |-> b.end_time,
         granularity |-> b.granularity,
         num_days |-> b.num_days, num_slots |-> b.num_slots,
         grid |-> populate(empty_grid(b.num_slots, b.num_days), parsed, 1, b),
         events |-> Ref("events"), colors |-> Ref("colors"),
         special_events |-> Ref("special_events")]

-----------------------------------------------------------------------------
(* Inputs of the calls *)

\* a str as the sequence of its characters; an optional str is None or [str |-> s]
Str(chars) == [str |-> chars]
WhitespaceChars == {" ", "\t"}

\* str.isspace()
isspace(s) == Len(s) > 0 /\ \A i \in 1..Len(s) : s[i] \in WhitespaceChars

\* truthiness of an optional str
truthy(x) == x # None /\ x.str # <<>>

\* three consecutive days, written in the two formats build() parses
Mon == DateStr("%Y%m%d", 1)
MonDashed == DateStr("%Y-%m-%d", 1)
Tue == DateStr("%Y%m%d", 2)
Wed == DateStr("%Y%m%d", 3)
WedDashed == DateStr("%Y-%m-%d", 3)

HourD1 == <<Mon, TimeStr(9, 0), TimeStr(10, 0)>>
HalfHourD2 == <<Tue, TimeStr(9, 0), TimeStr(9, 30)>>

\* time_ranges as passed to the calls of Spec: one bare tuple
TimeRangeArgs == {[kind |-> "tuple", val |-> HalfHourD2]}

\* time_ranges as passed to the calls of SpecGrid: lists
GridTimeRangeArgs ==
    { [kind |-> "list", val |-> <<>>],
      [kind |-> "list", val |-> <<HourD1>>],
      \* a one-slot range inside HourD1; a range that starts off a slot boundary;
      \* a range on the third day
      [kind |-> "list", val |->
         << <<MonDashed, TimeStr(9, 30), None>>,
            <<Tue, TimeStr(9, 10), TimeStr(9, 40)>>,
            <<Wed, TimeStr(9, 30), TimeStr(10, 0)>> >>],
      \* two ranges of one call that meet in a cell
      [kind |-> "list", val |->
         << <<Mon, TimeStr(9, 0), TimeStr(9, 30)>>,
            <<Mon, TimeStr(9, 15), TimeStr(10, 15)>> >>],
      \* around midnight on the third day; an entry that is not a triple; an end
      \* before its start; a range across nine in the morning
      [kind |-> "list", val |->
         << <<Wed, TimeStr(23, 30), None>>,
            <<Wed, TimeStr(9, 0)>>,
            <<WedDashed, TimeStr(0, 10), TimeStr(0, 40)>>,
            <<Tue, TimeStr(10, 0), TimeStr(9, 0)>>,
            <<Tue, TimeStr(8, 30), TimeStr(9, 30)>> >>] }

\* (event_color, event_title, event_subtext, subtext_size, open_ended)
EventArgs ==
    { [event_color |-> "cA", event_title |-> "Talk", event_subtext |-> None,
       subtext_size |-> None, open_ended |-> FALSE],
      [event_color |-> "cB", event_title |-> "Party", event_subtext |-> Str(<<"s">>),
       subtext_size |-> Str(<<"small">>), open_ended |-> TRUE] }

GridEventArgs == {e \in EventArgs : e.open_ended}

\* event_id as passed
EventIdArgs == {None, Str(<<>>), Str(<<" ", "\t">>), Str(<<"k", "1">>), Str(<<"k", "2">>)}

Titles == {"T"}
ColorArgs == {[name |-> "cA", r |-> 1, g |-> 0, b |-> 0]}
SpecialArgs ==
    {[date_str |-> "Saturday", time_range |-> "19:00", title |-> "Dinner",
      subtext |-> "Hall", color_name |-> "colVisit"]}

\* granularity_minutes as passed to the builds of Spec and of SpecGrid
GranularityArgs == {None, [int |-> 0], [int |-> 15]}
GridGranularityArgs == {[int |-> 15], [int |-> 30]}
Todays == {Date(Tue.ordinal)}

\* constructor arguments (start_date_str, end_date_str, start_time, end_time)
NoPrefs ==
    [start_date_str |-> None, end_date_str |-> None, start_time |-> None, end_time |-> None]

CtorArgs == {NoPrefs}

GridCtorArgs ==
    { NoPrefs,
      [start_date_str |-> Mon, end_date_str |-> Tue,
       start_time |-> TimeStr(9, 0), end_time |-> TimeStr(10, 0)],
      [start_date_str |-> None, end_date_str |-> None,
       start_time |-> TimeStr(23, 30), end_time |-> TimeStr(0, 30)],
      [start_date_str |-> WedDashed, end_date_str |-> MonDashed,
       start_time |-> None, end_time |-> None],
      \* the 24 hours from nine in the morning
      [start_date_str |-> None, end_date_str |-> None,
       start_time |-> TimeStr(9, 0), end_time |-> TimeStr(9, 0)] }

-----------------------------------------------------------------------------
(* State *)

\* the object a reference names, given the builder's events, colors and special_events
deref(r, ev, col, sp) ==
    IF r.ref = "events" THEN ev ELSE IF r.ref = "colors" THEN col ELSE sp

\* what a holder of the CompiledAgenda c reads through it when the builder's
\* events, colors and special_events objects hold ev, col and sp
View(c, ev, col, sp) ==
    [title |-> c.title,
     start_date |-> c.start_date, end_date |-> c.end_date,
     start_time |-> c.start_time, end_time |-> c.end_time,
     granularity |-> c.granularity, num_days |-> c.num_days, num_slots |-> c.num_slots,
     grid |-> c.grid,
     events |-> deref(c.events, ev, col, sp),
     colors |-> deref(c.colors, ev, col, sp),
     special_events |-> deref(c.special_events, ev, col, sp)]

\* a dict with d[k] = v set
dict_set(d, k, v) == [x \in (DOMAIN d) \cup {k} |-> IF x = k THEN v ELSE d[x]]

\* __init__(a.start_date_str, a.end_date_str, a.start_time, a.end_time)
init(a) ==
    /\ pref_start_date = IF a.start_date_str # None
                         THEN parse_date(a.start_date_str).value ELSE None
    /\ pref_end_date = IF a.end_date_str # None
                       THEN parse_date(a.end_date_str).value ELSE None
    /\ pref_start_time = IF a.start_time # None
                         THEN parse_time(a.start_time).value ELSE None
    /\ pref_end_time = IF a.end_time # None
                       THEN parse_time(a.end_time).value ELSE None
    /\ pending_events = <<>>
    /\ events = <<>>
    /\ external_eventids = <<>>
    /\ event_counter = 0
    /\ colors = <<>>
    /\ special_events = <<>>
    /\ title = "Weekly Agenda"
    /\ _cached_compilation = None
    /\ next_oid = 0
    /\ last_call = [op |-> "__init__", outcome |-> Ok(None), arg |-> None]
    /\ held = None
    /\ issued = <<>>
    /\ declared_since = FALSE
    /\ rendered = None

Init == \E a \in CtorArgs : init(a)
InitGrid == \E a \in GridCtorArgs : init(a)

set_title(t) ==
    /\ title' = t
    /\ _cached_compilation' = None
    /\ last_call' = [op |-> "set_title", outcome |-> Ok(None), arg |-> None]
    /\ declared_since' = TRUE
    /\ UNCHANGED <<prefs, pending_events, events, external_eventids, event_counter,
                   colors, special_events, next_oid, held, issued, rendered>>

define_color(name, r, g, b) ==
    /\ colors' = dict_set(colors, name, [r |-> r, g |-> g, b |-> b])
    /\ last_call' = [op |-> "define_color", outcome |-> Ok(None), arg |-> None]
    /\ UNCHANGED <<prefs, pending_events, events, external_eventids, event_counter,
                   special_events, title, _cached_compilation, next_oid, held, issued,
                   declared_since, rendered>>

add_special_event(date_str, time_range, ev_title, subtext, color_name) ==
    /\ special_events' = Append(special_events,
                                [date |-> date_str, time_range |-> <<time_range>>,
                                 title |-> ev_title, subtext |-> subtext,
                                 color |-> color_name])
    /\ last_call' = [op |-> "add_special_event", outcome |-> Ok(None), arg |-> None]
    /\ UNCHANGED <<prefs, pending_events, events, external_eventids, event_counter,
                   colors, title, _cached_compilation, next_oid, held, issued,
                   declared_since, rendered>>

\* time_ranges after "if isinstance(time_ranges, tuple): time_ranges = [time_ranges]"
as_list(time_ranges) ==
    IF time_ranges.kind = "tuple" THEN <<time_ranges.val>> ELSE time_ranges.val

\* the event_id takes part in identity reuse
has_key(event_id) ==
    ~(event_id = None \/ event_id.str = <<>> \/ isspace(event_id.str))

\* add_event finds the event_id in external_eventids
known_key(event_id) == has_key(event_id) /\ event_id.str \in DOMAIN external_eventids

\* internal_id_for without the lookup of the key: every call allocates
internal_id_for_always_fresh(event_id) == event_counter + 1

\* the internal id add_event gives the event
internal_id_for(event_id) ==
    IF known_key(event_id) THEN external_eventids[event_id.str] ELSE event_counter + 1

\* the AgendaEventData add_event constructs
event_data_of(internal_event_id, a) ==
    [internal_id |-> internal_event_id,
     color |-> a.event_color,
     title |-> a.event_title,
     subtext |-> IF truthy(a.event_subtext) THEN a.event_subtext.str ELSE <<>>,
     subtext_size |-> IF truthy(a.subtext_size) THEN a.subtext_size.str
                      ELSE <<"normalsize">>,
     open_ended |-> a.open_ended]

add_event(a, time_ranges, event_id) ==
    LET internal_event_id == internal_id_for(event_id)
    IN  /\ event_counter' = IF known_key(event_id) THEN event_counter
                            ELSE event_counter + 1
        /\ external_eventids' =
              IF has_key(event_id) /\ ~known_key(event_id)
              THEN dict_set(external_eventids, event_id.str, event_counter + 1)
              ELSE external_eventids
        /\ events' = dict_set(events, internal_event_id,
                              event_data_of(internal_event_id, a))
        /\ pending_events' = Append(pending_events,
                                    [internal_id |-> internal_event_id,
                                     ranges |-> as_list(time_ranges)])
        /\ _cached_compilation' = None
        /\ last_call' = [op |-> "add_event", outcome |-> Ok(internal_event_id),
                         arg |-> event_id]
        /\ issued' = IF internal_event_id \in DOMAIN issued THEN issued
                     ELSE dict_set(issued, internal_event_id,
                                   IF event_id = None \/ event_id.str = <<>>
                                      \/ isspace(event_id.str)
                                   THEN None ELSE event_id)
        /\ declared_since' = TRUE
        /\ UNCHANGED <<prefs, colors, special_events, title, next_oid, held, rendered>>

\* extend_event without the check that the id is registered
extend_event_unchecked(internal_event_id, time_ranges) ==
    /\ pending_events' = Append(pending_events,
                                [internal_id |-> internal_event_id,
                                 ranges |-> as_list(time_ranges)])
    /\ _cached_compilation' = None
    /\ last_call' = [op |-> "extend_event", outcome |-> Ok(None),
                     arg |-> [int |-> internal_event_id]]
    /\ declared_since' = TRUE
    /\ UNCHANGED <<prefs, events, external_eventids, event_counter,
                   colors, special_events, title, next_oid, held, issued, rendered>>

extend_event(internal_event_id, time_ranges) ==
    IF internal_event_id \notin DOMAIN events
    THEN /\ last_call' = [op |-> "extend_event", outcome |-> Raise("ValueError"),
                          arg |-> [int |-> internal_event_id]]
         /\ UNCHANGED <<prefs, pending_events, events, external_eventids, event_counter,
                        colors, special_events, title, _cached_compilation, next_oid,
                        held, issued, declared_since, rendered>>
    ELSE /\ pending_events' = Append(pending_events,
                                     [internal_id |-> internal_event_id,
                                      ranges |-> as_list(time_ranges)])
         /\ _cached_compilation' = None
         /\ last_call' = [op |-> "extend_event", outcome |-> Ok(None),
                          arg |-> [int |-> internal_event_id]]
         /\ declared_since' = TRUE
         /\ UNCHANGED <<prefs, events, external_eventids, event_counter,
                        colors, special_events, title, next_oid, held, issued, rendered>>

\* build() returns the CompiledAgenda c
build_returns(c, granularity_minutes) ==
    /\ last_call' = [op |-> "build", outcome |-> Ok([oid |-> c.oid]),
                     arg |-> granularity_minutes]
    /\ held' = c
    /\ declared_since' = FALSE

\* build() raises e before it has changed anything
build_raises(e, granularity_minutes) ==
    /\ last_call' = [op |-> "build", outcome |-> Raise(e), arg |-> granularity_minutes]
    /\ UNCHANGED <<_cached_compilation, next_oid, held, declared_since>>

\* build without the cache: every call compiles
build_uncached(granularity_minutes, today) ==
    /\ IF granularity_minutes = None
       THEN build_raises("TypeError", granularity_minutes)
       ELSE IF parse_raises(pending_events)
       THEN build_raises("ValueError", granularity_minutes)
       ELSE IF total_seconds(granularity_minutes.int) = 0
       THEN build_raises("ZeroDivisionError", granularity_minutes)
       ELSE /\ _cached_compilation' =
                  compile(pending_events, granularity_minutes.int, today, next_oid)
            /\ next_oid' = next_oid + 1
            /\ build_returns(_cached_compilation', granularity_minutes)
    /\ UNCHANGED <<prefs, pending_events, events, external_eventids, event_counter,
                   colors, special_events, title, issued>>

build(granularity_minutes, today) ==
    /\ IF _cached_compilation # None
       THEN /\ build_returns(_cached_compilation, granularity_minutes)
            /\ UNCHANGED <<_cached_compilation, next_oid>>
       ELSE IF granularity_minutes = None
       THEN build_raises("TypeError", granularity_minutes)
       ELSE IF parse_raises(pending_events)
       THEN build_raises("ValueError", granularity_minutes)
       ELSE IF total_seconds(granularity_minutes.int) = 0
       THEN build_raises("ZeroDivisionError", granularity_minutes)
       ELSE /\ _cached_compilation' =
                  compile(pending_events, granularity_minutes.int, today, next_oid)
            /\ next_oid' = next_oid + 1
            /\ build_returns(_cached_compilation', granularity_minutes)
    /\ UNCHANGED <<prefs, pending_events, events, external_eventids, event_counter,
                   colors, special_events, title, issued>>

-----------------------------------------------------------------------------
(* AgendaLatexRenderer: the render grid                                      *)
(*                                                                           *)
(* data is the CompiledAgenda as the renderer reads it (View): data.events   *)
(* is the event table itself. A cell of the render grid holds                *)
(*   id          None or [int |-> the event id]                              *)
(*   bg_color    None or [name |-> the color]                                *)
(*   text        None or the text payload; its field eid is not in the code: *)
(*               it records for which event the payload was written          *)
(*   frac_start, open_ended, span   as in the code                           *)

\* a local variable: Op applied to the value v, which is computed once
With(v, Op(_)) == CHOOSE y \in {Op(x) : x \in {v}} : TRUE

\* the characters _sanitize escapes
ReservedChars == {"&", "%", "$", "#", "_", "{", "}"}

\* _sanitize(text) for a str given as the sequence of its characters: "" when
\* the text is empty, otherwise every reserved character preceded by a backslash
RECURSIVE _sanitize(_)
_sanitize(text) ==
    IF text = <<>> THEN <<>>
    ELSE (IF Head(text) \in ReservedChars THEN <<"\\", Head(text)>> ELSE <<Head(text)>>)
            \o _sanitize(Tail(text))

\* pass 1: the render-grid cell made from the grid cell cell_data
render_cell(cell_data, data) ==
    IF cell_data # None /\ cell_data.id \in DOMAIN data.events
    THEN [id |-> [int |-> cell_data.id],
          bg_color |-> [name |-> data.events[cell_data.id].color],
          text |-> None,
          frac_start |-> cell_data.frac_start,
          open_ended |-> data.events[cell_data.id].open_ended,
          span |-> 1]
    ELSE [id |-> None, bg_color |-> None, text |-> None, frac_start |-> None,
          open_ended |-> FALSE, span |-> 1]

\* pass 1: the render grid before any text is placed
merged_grid(data) == [rc \in DOMAIN data.grid |-> render_cell(data.grid[rc], data)]

\* for i in range(visual_start_row, rows): the last row of the unbroken run of
\* eid in column center_col, from row i on, bottom_row being the last one found
RECURSIVE run_bottom(_, _, _, _, _, _)
run_bottom(render_grid, eid, center_col, i, rows, bottom_row) ==
    IF i >= rows THEN bottom_row
    ELSE IF render_grid[<<i, center_col>>].id = [int |-> eid]
    THEN run_bottom(render_grid, eid, center_col, i + 1, rows, i)
    ELSE bottom_row

\* center_col = int((min_col + max_col) // 2.0)
middle_col(min_col, max_col) == (min_col + max_col) \div 2

\* pass 2, for one event id: the anchor column, the offset, the first and the
\* last row of the run the text is placed on, and the span
resolve(render_grid, eid, rows) ==
    LET event_cells == {x \in DOMAIN render_grid : render_grid[x].id = [int |-> eid]}
        all_cols == {x[2] : x \in event_cells}
        min_col == Min(all_cols)
        max_col == Max(all_cols)
        center_col0 == middle_col(min_col, max_col)
        even == (max_col - min_col) % 2 = 0
        in_center == {x \in event_cells : x[2] = center_col0}
        center_col_cells ==
            IF even THEN in_center
            ELSE {x \in in_center :
                     render_grid[<<x[1], center_col0 + 1>>].id = [int |-> eid]}
        visual_start_row ==
            IF center_col_cells = {} THEN Min({x[1] : x \in event_cells})
            ELSE Min({x[1] : x \in center_col_cells})
        top_row_cols == {x[2] : x \in {y \in event_cells : y[1] = visual_start_row}}
        center_col ==
            IF center_col_cells = {}
            THEN Min(top_row_cols) + (Max(top_row_cols) - Min(top_row_cols)) \div 2
            ELSE center_col0
        bottom_row == run_bottom(render_grid, eid, center_col, visual_start_row, rows,
                                 visual_start_row)
        span == bottom_row - visual_start_row + 1
    IN  [center_col |-> center_col,
         x_offset_cols |-> IF even THEN [num |-> 0, den |-> 1] ELSE [num |-> 1, den |-> 2],
         visual_start_row |-> visual_start_row,
         bottom_row |-> bottom_row,
         final_span |-> IF span = 1 THEN span ELSE -span]

\* pass 2, for one event id: the render grid with the text written, or the
\* TypeError of subscripting None when the grid cell read for frac_start is empty
place_text(render_grid, eid, data) ==
    LET a == resolve(render_grid, eid, data.num_slots)
        evt_obj == data.events[eid]
        top_cell == data.grid[<<a.visual_start_row, a.center_col>>]
    IN  IF top_cell = None THEN Raise("TypeError")
        ELSE Ok([render_grid EXCEPT ![<<a.bottom_row, a.center_col>>] =
                    [@ EXCEPT !.text = [title |-> _sanitize(evt_obj.title),
                                        subtext |-> _sanitize(evt_obj.subtext),
                                        subtext_size |-> evt_obj.subtext_size,
                                        frac_start |-> top_cell.frac_start,
                                        x_offset_cols |-> a.x_offset_cols,
                                        eid |-> eid],
                              !.span = a.final_span]])

\* pass 2: for r in range(rows): for c in range(cols), from the n-th cell on
RECURSIVE place_texts(_, _, _, _)
place_texts(render_grid, processed_ids, n, data) ==
    IF n >= data.num_slots * data.num_days \/ data.num_days <= 0 THEN Ok(render_grid)
    ELSE LET cell_data == data.grid[<<n \div data.num_days, n % data.num_days>>]
         IN  IF cell_data = None \/ cell_data.id \in processed_ids
             THEN place_texts(render_grid, processed_ids, n + 1, data)
             ELSE IF \A x \in DOMAIN render_grid : render_grid[x].id # [int |-> cell_data.id]
             THEN place_texts(render_grid, processed_ids, n + 1, data)
             ELSE With(place_text(render_grid, cell_data.id, data),
                       LAMBDA placed :
                          IF placed.kind = "raise" THEN placed
                          ELSE place_texts(placed.value,
                                           processed_ids \cup {cell_data.id},
                                           n + 1, data))

_create_render_grid(data) == place_texts(merged_grid(data), {}, 0, data)

-----------------------------------------------------------------------------
(* AgendaLatexRenderer.render_legacy_grid: the borders of the table cells *)

\* bordered_cell that compares with the neighbours only
bordered_cell_no_edges(render_grid, r, c, rows, cols) ==
    LET cell == render_grid[<<r, c>>]
        curr_id == cell.id
    IN  [id |-> cell.id, bg_color |-> cell.bg_color, text |-> cell.text,
         frac_start |-> cell.frac_start, open_ended |-> cell.open_ended,
         span |-> cell.span,
         border_l |-> IF c > 0 /\ curr_id # render_grid[<<r, c - 1>>].id
                      THEN "THICK" ELSE "THIN",
         border_r |-> IF c < cols - 1 /\ curr_id # render_grid[<<r, c + 1>>].id
                      THEN "THICK" ELSE "THIN",
         border_b |-> IF r < rows - 1 /\ curr_id # render_grid[<<r + 1, c>>].id
                      THEN "THICK" ELSE "THIN"]

\* "Calculate Borders": the cell at (r, c) with border_l, border_r and border_b
bordered_cell(render_grid, r, c, rows, cols) ==
    LET cell == render_grid[<<r, c>>]
        curr_id == cell.id
    IN  [id |-> cell.id, bg_color |-> cell.bg_color, text |-> cell.text,
         frac_start |-> cell.frac_start, open_ended |-> cell.open_ended,
         span |-> cell.span,
         border_l |-> IF c = 0 THEN "THICK"
                      ELSE IF curr_id # render_grid[<<r, c - 1>>].id THEN "THICK"
                      ELSE "THIN",
         border_r |-> IF c = cols - 1 THEN "THICK"
                      ELSE IF curr_id # render_grid[<<r, c + 1>>].id THEN "THICK"
                      ELSE "THIN",
         border_b |-> IF r = rows - 1 THEN "THICK"
                      ELSE IF r < rows - 1 /\ curr_id # render_grid[<<r + 1, c>>].id
                      THEN "THICK"
                      ELSE "THIN"]

\* render_legacy_grid(...): the table cells of the document it returns, or the
\* exception it raises. The divisions by num_days and num_slots come first.
render_legacy_grid(data) ==
    IF data.num_days = 0 \/ data.num_slots = 0 THEN Raise("ZeroDivisionError")
    ELSE With(_create_render_grid(data),
              LAMBDA made :
                 IF made.kind = "raise" THEN made
                 ELSE Ok([backend |-> "legacygrid",
                          cells |-> [rc \in DOMAIN made.value |->
                                        bordered_cell(made.value, rc[1], rc[2],
                                                      data.num_slots, data.num_days)]]))

-----------------------------------------------------------------------------
(* AgendaLatexRenderer.render_tikz: "3. Events"                              *)
(*                                                                           *)
(* Fractions (height_pct, gap_x_pct, gap_y_pct, ext_y_pct) are given in      *)
(* thousandths. A y coordinate is in thousandths of a minute of the time     *)
(* axis, so that slot_height is 1000 * granularity; an x coordinate is in    *)
(* thousandths of day_col_width, measured from time_col_width. The code adds *)
(* fill_eps to the lower right corner of every fill.                         *)

\* slot_height = grid_height / num_slots, in the unit of the y coordinates
slot_height(data) == 1000 * data.granularity

\* the centimetres of grid_height = USABLE_HEIGHT_CM * height_pct - header_height,
\* in thousandths
grid_height(kw) == 18 * kw.height_pct - 800

\* frac * slot_height for the float frac
at_slot(frac, data) == (frac.num * slot_height(data)) \div frac.den

\* apart that sees a difference only when y2 lies below y1
apart_below(y1, y2, data, kw) ==
    (y2 - y1) * grid_height(kw) > 1000 * data.num_slots * data.granularity

\* abs(y1 - y2) > 0.001, the y coordinates converted to centimetres
apart(y1, y2, data, kw) ==
    (IF y1 >= y2 THEN y1 - y2 ELSE y2 - y1) * grid_height(kw)
        > 1000 * data.num_slots * data.granularity

Line(x1, y1, x2, y2) == [x1 |-> x1, y1 |-> y1, x2 |-> x2, y2 |-> y2]

\* is_true_top(check_r, check_c) and is_true_bottom(check_r, check_c)
is_true_top(render_grid, current_id, check_r, check_c) ==
    IF check_r < 0 THEN TRUE
    ELSE render_grid[<<check_r, check_c>>].id # current_id

is_true_bottom(render_grid, current_id, check_r, check_c, data) ==
    IF check_r >= data.num_slots THEN TRUE
    ELSE render_grid[<<check_r, check_c>>].id # current_id

\* find_end that goes on while the event id stays, whatever the bridges do
RECURSIVE find_end_by_id(_, _, _, _, _, _, _)
find_end_by_id(render_grid, c, end_r, current_id, has_bridge_right, has_bridge_left, data) ==
    IF end_r >= data.num_slots THEN end_r
    ELSE IF render_grid[<<end_r, c>>].id # current_id THEN end_r
    ELSE find_end_by_id(render_grid, c, end_r + 1, current_id,
                        has_bridge_right, has_bridge_left, data)

\* "Find End": the row at which the segment that began above end_r ends
RECURSIVE find_end(_, _, _, _, _, _, _)
find_end(render_grid, c, end_r, current_id, has_bridge_right, has_bridge_left, data) ==
    IF end_r >= data.num_slots THEN end_r
    ELSE IF render_grid[<<end_r, c>>].id # current_id THEN end_r
    ELSE LET next_has_bridge_right ==
                 c < data.num_days - 1 /\ render_grid[<<end_r, c + 1>>].id = current_id
             next_has_bridge_left ==
                 c > 0 /\ render_grid[<<end_r, c - 1>>].id = current_id
         IN  IF next_has_bridge_right # has_bridge_right
                \/ next_has_bridge_left # has_bridge_left
             THEN end_r
             ELSE find_end(render_grid, c, end_r + 1, current_id,
                           has_bridge_right, has_bridge_left, data)

\* y2_of that treats every segment as closed at a true bottom
y2_of_always_closed(is_bottom, is_open_ended, base_y_bottom, data, kw) ==
    base_y_bottom - (slot_height(data) * kw.gap_y_pct) \div 1000

\* the bottom edge for a segment or bridge whose base is base_y_bottom
y2_of(is_bottom, is_open_ended, base_y_bottom, data, kw) ==
    IF is_bottom
    THEN (IF is_open_ended
          THEN base_y_bottom + (slot_height(data) * kw.ext_y_pct) \div 1000
          ELSE base_y_bottom - (slot_height(data) * kw.gap_y_pct) \div 1000)
    ELSE base_y_bottom

\* bridge_left that never sees the same event on the left
bridge_left_never(render_grid, current_id, r, c) == FALSE

\* has_bridge_right (has_bridge_left) of the cell at (r, c) holding current_id
bridge_right(render_grid, current_id, r, c, data) ==
    c < data.num_days - 1 /\ render_grid[<<r, c + 1>>].id = current_id

bridge_left(render_grid, current_id, r, c) ==
    c > 0 /\ render_grid[<<r, c - 1>>].id = current_id

\* what is drawn for the segment of column c that begins at row start_r: the
\* fill and the lines that are emitted (None for a line that is not)
segment(render_grid, c, start_r, data, kw) ==
    LET cell == render_grid[<<start_r, c>>]
        current_id == cell.id
        is_open_ended == cell.open_ended
        has_bridge_right == bridge_right(render_grid, current_id, start_r, c, data)
        has_bridge_left == bridge_left(render_grid, current_id, start_r, c)
        end_r == find_end(render_grid, c, start_r + 1, current_id,
                          has_bridge_right, has_bridge_left, data)
        main_is_top == is_true_top(render_grid, current_id, start_r - 1, c)
        right_is_top == IF c < data.num_days - 1
                        THEN is_true_top(render_grid, current_id, start_r - 1, c + 1)
                        ELSE FALSE
        main_is_bottom == is_true_bottom(render_grid, current_id, end_r, c, data)
        right_is_bottom == IF c < data.num_days - 1
                           THEN is_true_bottom(render_grid, current_id, end_r, c + 1, data)
                           ELSE FALSE
        left_is_bottom == IF c > 0
                          THEN is_true_bottom(render_grid, current_id, end_r, c - 1, data)
                          ELSE FALSE
        y_top == at_slot(render_grid[<<start_r, c>>].frac_start, data)
        base_y_bottom == end_r * slot_height(data)
        x_left == c * 1000
        x_right == x_left + 1000
        draw_border_l == ~has_bridge_left
        draw_border_r == ~has_bridge_right
        draw_border_t == main_is_top
        main_y2 == y2_of(main_is_bottom, is_open_ended, base_y_bottom, data, kw)
        main_x2 == x_right - kw.gap_x_pct
        bridge_is_top == main_is_top \/ right_is_top
        bridge_is_bottom == main_is_bottom \/ right_is_bottom
        bridge_y2 == y2_of(bridge_is_bottom, is_open_ended, base_y_bottom, data, kw)
        left_bridge_is_bottom == main_is_bottom \/ left_is_bottom
        left_bridge_y2 == y2_of(left_bridge_is_bottom, is_open_ended, base_y_bottom,
                                data, kw)
    IN  [c |-> c, start_r |-> start_r, end_r |-> end_r, id |-> current_id,
         open_ended |-> is_open_ended,
         main_is_top |-> main_is_top, main_is_bottom |-> main_is_bottom,
         fill |-> [color |-> cell.bg_color, box |-> Line(x_left, y_top, main_x2, main_y2)],
         top |-> IF draw_border_t THEN Line(x_left, y_top, main_x2, y_top) ELSE None,
         bottom |-> IF main_is_bottom /\ ~is_open_ended
                    THEN Line(x_left, main_y2, main_x2, main_y2) ELSE None,
         left |-> IF draw_border_l THEN Line(x_left, y_top, x_left, main_y2) ELSE None,
         right |-> IF draw_border_r THEN Line(main_x2, y_top, main_x2, main_y2) ELSE None,
         bridge_fill |-> IF has_bridge_right
                         THEN [color |-> cell.bg_color,
                               box |-> Line(main_x2, y_top, x_right, bridge_y2)]
                         ELSE None,
         bridge_top |-> IF has_bridge_right /\ bridge_is_top
                        THEN Line(main_x2, y_top, x_right, y_top) ELSE None,
         bridge_bottom |-> IF has_bridge_right /\ bridge_is_bottom /\ ~is_open_ended
                           THEN Line(main_x2, bridge_y2, x_right, bridge_y2) ELSE None,
         seam |-> IF has_bridge_right /\ apart(main_y2, bridge_y2, data, kw)
                  THEN Line(main_x2, Min({main_y2, bridge_y2}),
                            main_x2, Max({main_y2, bridge_y2}))
                  ELSE None,
         patch_left |-> IF has_bridge_left /\ apart(main_y2, left_bridge_y2, data, kw)
                        THEN Line(x_left, Min({main_y2, left_bridge_y2}),
                                  x_left, Max({main_y2, left_bridge_y2}))
                        ELSE None]

\* while r < num_slots: the segments of column c from row r on
RECURSIVE column_segments(_, _, _, _, _)
column_segments(render_grid, c, r, data, kw) ==
    IF r >= data.num_slots THEN <<>>
    ELSE IF render_grid[<<r, c>>].id # None
    THEN With(segment(render_grid, c, r, data, kw),
              LAMBDA seg :
                 <<seg>> \o column_segments(render_grid, c, seg.end_r, data, kw))
    ELSE column_segments(render_grid, c, r + 1, data, kw)

\* for c in range(num_days): the segments of the columns from c on
RECURSIVE all_segments(_, _, _, _)
all_segments(render_grid, c, data, kw) ==
    IF c >= data.num_days THEN <<>>
    ELSE column_segments(render_grid, c, 0, data, kw)
            \o all_segments(render_grid, c + 1, data, kw)

\* "5. Content", for the cell at (r, c) that carries a text: where the node of
\* the label is put, x_center and y_center being halves of integers
label(cell, r, c, data, kw) ==
    LET frac_start == cell.text.frac_start
        num_rows == IF cell.span < 0 THEN -cell.span ELSE cell.span
        y_top == at_slot(frac_start, data)
        base_y_bottom == at_slot([num |-> frac_start.num + num_rows * frac_start.den,
                                  den |-> frac_start.den], data)
        y_actual_bottom == y2_of(TRUE, cell.open_ended, base_y_bottom, data, kw)
        x_left == c * 1000
        x_off == cell.text.x_offset_cols
    IN  [r |-> r, c |-> c, eid |-> cell.text.eid,
         x_center |-> [num |-> 2 * x_left + 1000 + (2 * 1000 * x_off.num) \div x_off.den
                                  - kw.gap_x_pct,
                       den |-> 2],
         y_center |-> [num |-> y_top + y_actual_bottom, den |-> 2]]

\* for r in range(num_slots): for c in range(num_days), from the n-th cell on:
\* the labels in the order their nodes are appended
RECURSIVE content(_, _, _, _)
content(render_grid, n, data, kw) ==
    IF n >= data.num_slots * data.num_days THEN <<>>
    ELSE LET r == n \div data.num_days
             c == n % data.num_days
         IN  (IF render_grid[<<r, c>>].text # None
              THEN <<label(render_grid[<<r, c>>], r, c, data, kw)>>
              ELSE <<>>) \o content(render_grid, n + 1, data, kw)

\* render_tikz(...): the events of the document it returns, or the exception it
\* raises. The divisions by num_days and num_slots come first.
render_tikz(data, kw) ==
    IF data.num_days = 0 \/ data.num_slots = 0 THEN Raise("ZeroDivisionError")
    ELSE With(_create_render_grid(data),
              LAMBDA made :
                 IF made.kind = "raise" THEN made
                 ELSE Ok([backend |-> "tikz",
                          cells |-> made.value,
                          segments |-> all_segments(made.value, 0, data, kw),
                          labels |-> content(made.value, 0, data, kw)]))

-----------------------------------------------------------------------------
(* Spec: the calls a client makes on one AgendaBuilder *)

\* the call may still be made within the bounds of the model
MayDeclare == Len(pending_events) < MaxPending
MayAllocate(event_id) == known_key(event_id) \/ event_counter < MaxEvents
MayCompile == _cached_compilation # None \/ next_oid < MaxBuilds

SetTitle == \E t \in Titles : set_title(t)
DefineColor == \E c \in ColorArgs : define_color(c.name, c.r, c.g, c.b)
AddSpecialEvent ==
    /\ Len(special_events) < MaxSpecial
    /\ \E e \in SpecialArgs :
          add_special_event(e.date_str, e.time_range, e.title, e.subtext, e.color_name)
AddEvent ==
    /\ MayDeclare
    /\ \E a \in EventArgs, tr \in TimeRangeArgs, k \in EventIdArgs :
          MayAllocate(k) /\ add_event(a, tr, k)
ExtendEvent ==
    \E id \in (DOMAIN events) \cup {event_counter + 1}, tr \in TimeRangeArgs :
        /\ id \in DOMAIN events => MayDeclare
        /\ extend_event(id, tr)
Build ==
    /\ MayCompile
    /\ \E g \in GranularityArgs, today \in Todays : build(g, today)
    /\ UNCHANGED rendered

Next ==
    \/ SetTitle
    \/ DefineColor
    \/ AddSpecialEvent
    \/ AddEvent
    \/ ExtendEvent
    \/ Build

Spec == Init /\ [][Next]_vars

-----------------------------------------------------------------------------
(* SpecGrid: declarations of time ranges and their compilation, for builders *)
(* constructed with explicit and with inferred bounds                        *)

GridAddEvent ==
    /\ MayDeclare
    /\ MayAllocate(None)
    /\ \E a \in GridEventArgs, tr \in GridTimeRangeArgs : add_event(a, tr, None)
GridExtendEvent ==
    \E id \in (DOMAIN events) \cup {event_counter + 1}, tr \in GridTimeRangeArgs :
        /\ id \in DOMAIN events => MayDeclare
        /\ extend_event(id, tr)
GridBuild ==
    /\ MayCompile
    /\ \E g \in GridGranularityArgs, today \in Todays : build(g, today)
    /\ UNCHANGED rendered

NextGrid ==
    \/ GridAddEvent
    \/ GridExtendEvent
    \/ GridBuild

SpecGrid == InitGrid /\ [][NextGrid]_vars

-----------------------------------------------------------------------------
(* SpecRender: events declared on a grid of three days and three slots, and *)
(* the documents generated from them                                        *)

\* the document the last call of generate_latex_tikz or generate_latex_legacygrid
\* returned (or the exception it raised), None before the first such call
last_tikz == IF rendered = None THEN None ELSE rendered.tikz
last_legacygrid == IF rendered = None THEN None ELSE rendered.legacygrid

\* generate_latex_tikz(granularity_minutes, height_pct=..., gap_x_pct=..., ...)
generate_latex_tikz(granularity_minutes, today, kw) ==
    /\ build(granularity_minutes, today)
    /\ rendered' =
          [tikz |->
              [outcome |-> IF last_call'.outcome.kind = "raise" THEN last_call'.outcome
                           ELSE With(View(held', events', colors', special_events'),
                                     LAMBDA compiled_data :
                                        render_tikz(compiled_data, kw)),
               kw |-> kw],
           legacygrid |-> last_legacygrid]

\* generate_latex_legacygrid(granularity_minutes, ...)
generate_latex_legacygrid(granularity_minutes, today) ==
    /\ build(granularity_minutes, today)
    /\ rendered' =
          [tikz |-> last_tikz,
           legacygrid |->
              [outcome |-> IF last_call'.outcome.kind = "raise" THEN last_call'.outcome
                           ELSE With(View(held', events', colors', special_events'),
                                     LAMBDA compiled_data :
                                        render_legacy_grid(compiled_data))]]

\* Monday to Wednesday, 09:00 to 09:45
RenderCtorArgs ==
    {[start_date_str |-> Mon, end_date_str |-> Wed,
      start_time |-> TimeStr(9, 0), end_time |-> TimeStr(9, 45)]}

\* a closed and an open-ended event; the titles are given as their characters
RenderEventArgs ==
    { [event_color |-> "cA", event_title |-> <<"Q", "&", "A">>, event_subtext |-> None,
       subtext_size |-> None, open_ended |-> FALSE],
      [event_color |-> "cB", event_title |-> <<"P">>,
       event_subtext |-> Str(<<"5", "%">>),
       subtext_size |-> Str(<<"small">>), open_ended |-> TRUE] }

\* the time_ranges of the events: their footprints on the grid, rows 0..2 being
\* the slots from 09:00, 09:15 and 09:30, columns 0..2 the three days
RenderTimeRangeArgs ==
    { \* the one cell (1, 1)
      [kind |-> "list", val |-> << <<Tue, TimeStr(9, 15), None>> >>],
      \* column 1, rows 0..1
      [kind |-> "list", val |-> << <<Tue, TimeStr(9, 0), TimeStr(9, 30)>> >>],
      \* rows 0..1 of columns 0..1
      [kind |-> "list", val |-> << <<Mon, TimeStr(9, 0), TimeStr(9, 30)>>,
                                   <<Tue, TimeStr(9, 0), TimeStr(9, 30)>> >>],
      \* the cells (1, 0) and (1, 2), with the column between them left out
      [kind |-> "list", val |-> << <<Mon, TimeStr(9, 15), None>>,
                                   <<Wed, TimeStr(9, 15), None>> >>],
      \* column 0, rows 0..1, and the cell (1, 1)
      [kind |-> "list", val |-> << <<Mon, TimeStr(9, 0), TimeStr(9, 30)>>,
                                   <<Tue, TimeStr(9, 15), None>> >>],
      \* column 0, rows 0..2, and the cell (0, 1)
      [kind |-> "list", val |-> << <<Mon, TimeStr(9, 0), TimeStr(9, 45)>>,
                                   <<Tue, TimeStr(9, 0), None>> >>],
      \* column 2 from 09:05 to 09:35: rows 0..1, starting off the slot boundary
      [kind |-> "list", val |-> << <<Wed, TimeStr(9, 5), TimeStr(9, 35)>> >>],
      \* columns 1..2, rows 1..2, and the cell (2, 0)
      [kind |-> "list", val |-> << <<Tue, TimeStr(9, 15), TimeStr(9, 45)>>,
                                   <<Wed, TimeStr(9, 15), TimeStr(9, 45)>>,
                                   <<Mon, TimeStr(9, 30), None>> >>] }

RenderGranularityArgs == {[int |-> 15]}

\* height_pct, gap_x_pct, gap_y_pct and ext_y_pct in thousandths: the defaults,
\* and a gap below closed events
TikzArgs ==
    { [height_pct |-> 1400, gap_x_pct |-> 30, gap_y_pct |-> 0, ext_y_pct |-> 150],
      [height_pct |-> 1400, gap_x_pct |-> 30, gap_y_pct |-> 50, ext_y_pct |-> 150] }

InitRender == \E a \in RenderCtorArgs : init(a)

\* the events are declared before the documents are generated
NothingRendered == rendered = None

RenderAddEvent ==
    /\ NothingRendered
    /\ MayDeclare
    /\ MayAllocate(None)
    /\ \E a \in RenderEventArgs, tr \in RenderTimeRangeArgs : add_event(a, tr, None)
GenerateLatexTikz ==
    /\ MayCompile
    /\ \E g \in RenderGranularityArgs, today \in Todays, kw \in TikzArgs :
          generate_latex_tikz(g, today, kw)
GenerateLatexLegacygrid ==
    /\ MayCompile
    /\ \E g \in RenderGranularityArgs, today \in Todays :
          generate_latex_legacygrid(g, today)

NextRender ==
    \/ RenderAddEvent
    \/ GenerateLatexTikz
    \/ GenerateLatexLegacygrid

SpecRender == InitRender /\ [][NextRender]_vars

-----------------------------------------------------------------------------
(* What the declarations say, independently of how build() computes it *)

\* the slot timestamps the pending declarations list, in the order they are
\* declared: i the declaration, j the entry of its list, k the step inside the range
DeclaredStamps(pending, g) ==
    UNION { UNION { LET entry == pending[i].ranges[j]
                        start == entry[2].hh * 60 + entry[2].mm
                        limit == IF entry[3] = None THEN start + g
                                 ELSE entry[3].hh * 60 + entry[3].mm
                    IN  IF limit > start
                        THEN {[i |-> i, j |-> j, k |-> k,
                               id |-> pending[i].internal_id,
                               day |-> entry[1].ordinal,
                               t |-> start + k * g] :
                                  k \in 0..((limit - start - 1) \div g)}
                        ELSE {} :
                    j \in {x \in 1..Len(pending[i].ranges) :
                              Len(pending[i].ranges[x]) = 3} } :
            i \in 1..Len(pending) }

\* stamp v is declared after stamp w
Later(v, w) ==
    \/ v.i > w.i
    \/ v.i = w.i /\ v.j > w.j
    \/ v.i = w.i /\ v.j = w.j /\ v.k > w.k

\* minutes from the grid's start time to the clock time t, going forward in time
Forward(t, c) == (t - (c.start_time.hour * 60 + c.start_time.minute)) % MinutesPerDay

\* the (row, column) the stamp w falls on in the compiled agenda c
CellOf(w, c) == <<Forward(w.t, c) \div c.granularity, w.day - c.start_date.ordinal>>

InGrid(rc, c) ==
    /\ 0 <= rc[1] /\ rc[1] < c.num_slots
    /\ 0 <= rc[2] /\ rc[2] < c.num_days

Compiled == _cached_compilation # None

-----------------------------------------------------------------------------
(* Claims *)

\* C4 (coverage): every non-empty cell of a compiled grid holds an event id that
\* is a key of the compiled event table.
C4_Coverage ==
    Compiled =>
        \A rc \in DOMAIN _cached_compilation.grid :
            _cached_compilation.grid[rc] # None =>
                _cached_compilation.grid[rc].id \in
                    DOMAIN View(_cached_compilation, events, colors, special_events).events

\* C4 witness: a compiled grid with a cell that an extend_event call declared
C4_Witness ==
    /\ Compiled
    /\ last_call.op = "build"
    /\ Len(pending_events) = 2
    /\ pending_events[2].internal_id = pending_events[1].internal_id
    /\ LET c == _cached_compilation
       IN  \E w \in DeclaredStamps(pending_events, c.granularity) :
              /\ w.i = 2
              /\ InGrid(CellOf(w, c), c)
              /\ \A v \in DeclaredStamps(pending_events, c.granularity) :
                    v.i = 1 => CellOf(v, c) # CellOf(w, c)
              /\ c.grid[CellOf(w, c)] # None

\* C8 (last write wins): a cell that several declared slot timestamps fall on
\* holds the id and the frac_start of the one declared last.
C8_LastWriteWins ==
    Compiled =>
        LET c == _cached_compilation
            ws == {w \in DeclaredStamps(pending_events, c.granularity) :
                      InGrid(CellOf(w, c), c)}
        IN  \A w \in ws :
                (\A v \in ws : CellOf(v, c) = CellOf(w, c) => ~Later(v, w)) =>
                    c.grid[CellOf(w, c)] =
                        [id |-> w.id,
                         frac_start |-> [num |-> Forward(w.t, c), den |-> c.granularity]]

\* C8 witness: a compiled cell on which stamps of two declarations fall, and a
\* compiled cell on which stamps of two ranges of one declaration fall with
\* different frac_start
C8_Witness ==
    /\ Compiled
    /\ last_call.op = "build"
    /\ LET c == _cached_compilation
           ws == {w \in DeclaredStamps(pending_events, c.granularity) :
                     InGrid(CellOf(w, c), c)}
       IN  /\ \E v, w \in ws :
                 /\ CellOf(v, c) = CellOf(w, c)
                 /\ v.i < w.i /\ v.id # w.id
                 /\ c.grid[CellOf(w, c)] # None
           /\ \E v, w \in ws :
                 /\ CellOf(v, c) = CellOf(w, c)
                 /\ v.i = w.i /\ v.j < w.j
                 /\ Forward(v.t, c) # Forward(w.t, c)

\* C9 (out-of-range drop): build succeeds whatever falls outside the grid; the
\* grid has exactly the cells of rows 0..num_slots-1 and columns 0..num_days-1;
\* every declared stamp that falls inside is written, and a cell that only
\* out-of-range stamps would reach stays empty.
C9_OutOfRangeDrop ==
    /\ (last_call.op = "build" /\ last_call.arg # None /\ last_call.arg.int > 0)
          => last_call.outcome.kind = "ok"
    /\ Compiled =>
        LET c == _cached_compilation
            ws == DeclaredStamps(pending_events, c.granularity)
        IN  /\ DOMAIN c.grid = (0..(c.num_slots - 1)) \X (0..(c.num_days - 1))
            /\ \A w \in ws : InGrid(CellOf(w, c), c) => c.grid[CellOf(w, c)] # None
            /\ \A rc \in DOMAIN c.grid :
                  c.grid[rc] # None => \E w \in ws : CellOf(w, c) = rc /\ w.id = c.grid[rc].id

\* C9 witness: one compilation with a stamp outside the days, a stamp outside
\* the slots and a stamp inside the grid
C9_Witness ==
    /\ Compiled
    /\ last_call.op = "build"
    /\ LET c == _cached_compilation
           ws == DeclaredStamps(pending_events, c.granularity)
       IN  /\ \E w \in ws : CellOf(w, c)[2] >= c.num_days
           /\ \E w \in ws : CellOf(w, c)[2] < c.num_days /\ CellOf(w, c)[1] >= c.num_slots
           /\ \E w \in ws : InGrid(CellOf(w, c), c)

\* C10 (time quantization): a non-empty cell at row r stores the frac_start
\* (t' - s) / g of a declared clock time t, where s is the grid's start time,
\* t' = t + 1440 exactly when t < s, and r = floor(frac_start), so that
\* r <= frac_start < r + 1.
C10_Quantization ==
    Compiled =>
        LET c == _cached_compilation
            s == c.start_time.hour * 60 + c.start_time.minute
            g == c.granularity
        IN  \A rc \in DOMAIN c.grid :
                c.grid[rc] # None =>
                    LET q == c.grid[rc].frac_start
                    IN  /\ q.den = g
                        /\ rc[1] * g <= q.num /\ q.num < (rc[1] + 1) * g
                        /\ \E w \in DeclaredStamps(pending_events, g) :
                              /\ w.day - c.start_date.ordinal = rc[2]
                              /\ q.num = (IF w.t < s THEN w.t + 1440 ELSE w.t) - s

\* C10 witness: a compiled cell whose clock time lies before the grid's start
\* time, and a compiled cell whose frac_start is not a whole number
C10_Witness ==
    /\ Compiled
    /\ last_call.op = "build"
    /\ LET c == _cached_compilation
           s == c.start_time.hour * 60 + c.start_time.minute
       IN  /\ \E w \in DeclaredStamps(pending_events, c.granularity) :
                 /\ w.t < s
                 /\ InGrid(CellOf(w, c), c)
                 /\ c.grid[CellOf(w, c)].id = w.id
           /\ \E rc \in DOMAIN c.grid :
                 /\ c.grid[rc] # None
                 /\ c.grid[rc].frac_start.num % c.granularity # 0

\* the grid the declarations describe for the bounds of the compiled agenda c:
\* each cell holds the last declared stamp that falls on it
DeclaredGrid(pending, c) ==
    [rc \in (0..(c.num_slots - 1)) \X (0..(c.num_days - 1)) |->
        LET ws == {w \in DeclaredStamps(pending, c.granularity) : CellOf(w, c) = rc}
        IN  IF ws = {} THEN None
            ELSE LET w == CHOOSE x \in ws : \A v \in ws : ~Later(v, x)
                 IN  [id |-> w.id,
                      frac_start |-> [num |-> Forward(w.t, c), den |-> c.granularity]]]

Mutators == {"set_title", "define_color", "add_special_event", "add_event", "extend_event"}

\* C1 (memoized until dirty): a build() with no add_event, extend_event or
\* set_title since the previous build returns the very object that build
\* returned, with every field as it is; a build() that returns after such a call
\* returns a new object whose grid is the one all declarations made so far describe.
C1_MemoizedUntilDirty ==
    [][last_call'.op = "build" =>
          /\ (held # None /\ ~declared_since) =>
                /\ last_call'.outcome = Ok([oid |-> held.oid])
                /\ held' = held
                /\ View(held', events', colors', special_events')
                      = View(held, events, colors, special_events)
          /\ (declared_since /\ last_call'.outcome.kind = "ok") =>
                /\ held'.oid = next_oid
                /\ held # None => held'.oid # held.oid
                /\ held'.grid = DeclaredGrid(pending_events', held')]_vars

\* C1 witness: a build that can only have returned the cached object (it was
\* called without a granularity), the object being one compiled after a
\* declaration that followed an earlier build
C1_Witness ==
    /\ last_call.op = "build"
    /\ last_call.outcome.kind = "ok"
    /\ last_call.arg = None
    /\ held.oid > 0
    /\ \E rc \in DOMAIN held.grid : held.grid[rc] # None

\* C2 (as claimed): the build() that follows a call of any mutator constructs a
\* new CompiledAgenda.
C2_EveryMutatorInvalidates ==
    [][(/\ last_call'.op = "build"
        /\ last_call'.outcome.kind = "ok"
        /\ last_call.op \in Mutators) =>
            /\ next_oid' = next_oid + 1
            /\ held'.oid = next_oid]_vars

\* C3 (as claimed): no operation on the builder changes what is read through a
\* CompiledAgenda that build() has returned.
C3_SnapshotImmutable ==
    [][held # None =>
          View(held, events', colors', special_events')
             = View(held, events, colors, special_events)]_vars

\* the event_id is present and not blank
PresentKey(k) ==
    /\ k # None
    /\ \E i \in 1..Len(k.str) : k.str[i] \notin WhitespaceChars

\* C5 (identity reuse): add_event with a present, non-blank key that an earlier
\* add_event was given returns the id that call returned; every other add_event
\* returns an id greater than every id returned before.
C5_IdentityReuse ==
    [][last_call'.op = "add_event" =>
          LET k == last_call'.arg
              ret == last_call'.outcome.value
              earlier == {id \in DOMAIN issued : PresentKey(k) /\ issued[id] = k}
          IN  IF earlier # {}
              THEN earlier = {ret}
              ELSE \A id \in DOMAIN issued : ret > id]_vars

\* C5 witness: the second add_event with one key has returned the id of the first
C5_Witness ==
    /\ last_call.op = "add_event"
    /\ PresentKey(last_call.arg)
    /\ Len(pending_events) = 2
    /\ pending_events[1].internal_id = last_call.outcome.value
    /\ pending_events[2].internal_id = last_call.outcome.value
    /\ event_counter = 1

\* C6 (as claimed): the record of a registered event never changes.
C6_EventRecordStable ==
    [][\A id \in DOMAIN events : id \in DOMAIN events' /\ events'[id] = events[id]]_vars

\* C7 (unknown id): extend_event with an id that no add_event has returned
\* raises, and leaves the pending declarations, the event table, the key table
\* and the cached compilation as they are.
C7_ExtendUnknownFails ==
    [][(last_call'.op = "extend_event" /\ last_call'.arg.int \notin DOMAIN issued) =>
          /\ last_call'.outcome.kind = "raise"
          /\ pending_events' = pending_events
          /\ events' = events
          /\ external_eventids' = external_eventids
          /\ event_counter' = event_counter
          /\ _cached_compilation' = _cached_compilation]_vars

\* C7 witness: an extend_event has raised while a compilation of declared
\* ranges was cached, and the compilation is still cached
C7_Witness ==
    /\ last_call.op = "extend_event"
    /\ last_call.outcome.kind = "raise"
    /\ Len(pending_events) > 0
    /\ Compiled

\* minutes after midnight of the clock times of Scenario E
NineAM == mins(Time(9, 0))
HalfPastEleven == mins(Time(23, 30))

\* the declared stamps at clock time t that fall on a column of the compiled agenda c
StampsAt(t, c) ==
    {w \in DeclaredStamps(pending_events, c.granularity) :
        /\ w.t = t
        /\ 0 <= w.day - c.start_date.ordinal
        /\ w.day - c.start_date.ordinal < c.num_days}

\* C11 (as claimed): with grid start time 09:00, a slot timestamp at 23:30 is
\* quantized with 24 hours added, (23:30 + 24h - 09:00) / g, and its row is a row
\* of the grid.
C11_ScenarioE ==
    (Compiled /\ mins(_cached_compilation.start_time) = NineAM) =>
        LET c == _cached_compilation
            g == c.granularity
            diff == HalfPastEleven + MinutesPerDay - NineAM
        IN  \A w \in StampsAt(HalfPastEleven, c) :
                LET rc == <<diff \div g, w.day - c.start_date.ordinal>>
                IN  /\ 0 <= rc[1] /\ rc[1] < c.num_slots
                    /\ c.grid[rc] # None
                    /\ c.grid[rc].frac_start = [num |-> diff, den |-> g]

\* C11 (amended): with grid start time 09:00, a slot timestamp at 23:30 is not
\* wrapped: its fractional index is (23:30 - 09:00) / g = 870 / g, the offset on
\* the same day. When the row floor(870 / g) is a row of the grid the cell is
\* written, and holds exactly that index unless a later stamp fell on it. Only a
\* clock time before the grid's start time gets 24 hours added.
C11_SameDayOffset ==
    (Compiled /\ mins(_cached_compilation.start_time) = NineAM) =>
        LET c == _cached_compilation
            g == c.granularity
            diff == HalfPastEleven - NineAM
            ws == DeclaredStamps(pending_events, g)
        IN  /\ \A w \in StampsAt(HalfPastEleven, c) :
                  LET rc == <<diff \div g, w.day - c.start_date.ordinal>>
                  IN  rc[1] < c.num_slots =>
                         /\ c.grid[rc] # None
                         /\ (\A v \in ws : CellOf(v, c) = rc => ~Later(v, w)) =>
                               c.grid[rc] = [id |-> w.id,
                                             frac_start |-> [num |-> diff, den |-> g]]
            /\ \A rc \in DOMAIN c.grid :
                  c.grid[rc] # None =>
                     (c.grid[rc].frac_start.num >= MinutesPerDay - NineAM
                        <=> \E w \in ws : CellOf(w, c) = rc /\ w.t < NineAM)

\* C11 witness: a grid that starts at 09:00 with a cell written by a 23:30 stamp
C11_Witness ==
    /\ Compiled
    /\ last_call.op = "build"
    /\ mins(_cached_compilation.start_time) = NineAM
    /\ LET c == _cached_compilation
       IN  \E w \in StampsAt(HalfPastEleven, c) :
              LET rc == <<(HalfPastEleven - NineAM) \div c.granularity,
                          w.day - c.start_date.ordinal>>
              IN  /\ rc[1] < c.num_slots
                  /\ c.grid[rc] = [id |-> w.id,
                                   frac_start |-> [num |-> HalfPastEleven - NineAM,
                                                   den |-> c.granularity]]

\* the entries of the pending declarations that are (date, start, end) triples
DeclaredEntries(pending) ==
    UNION {{pending[i].ranges[j] :
               j \in {x \in 1..Len(pending[i].ranges) : Len(pending[i].ranges[x]) = 3}} :
           i \in 1..Len(pending)}

\* the days, and the start and end clock times in minutes, of those entries
DeclaredDays(pending) == {entry[1].ordinal : entry \in DeclaredEntries(pending)}
DeclaredTimes(pending) ==
    {entry[2].hh * 60 + entry[2].mm : entry \in DeclaredEntries(pending)}
    \cup {entry[3].hh * 60 + entry[3].mm :
             entry \in {x \in DeclaredEntries(pending) : x[3] # None}}

\* m is the least (the greatest) element of the set S of integers
IsLeast(m, S) == m \in S /\ \A x \in S : m <= x
IsGreatest(m, S) == m \in S /\ \A x \in S : x <= m

\* the time window of the compiled agenda c in minutes: from its start time to
\* its end time, the end being on the next day when it is not after the start
Window(c) ==
    LET s == mins(c.start_time)
        e == mins(c.end_time)
    IN  IF e <= s THEN e + MinutesPerDay - s ELSE e - s

\* C12 (bounds inference and grid size): a bound given to the constructor is
\* kept; a start (end) date not given is the least (greatest) declared date, a
\* start (end) time not given the least (greatest) of all declared start and end
\* times; num_days is the day difference plus one; num_slots is the ceiling of
\* window / granularity, the window taking 24 hours more when the end time is
\* not after the start time; the grid has the cells of num_slots rows and
\* num_days columns and no other.
C12_BoundsAndSize ==
    Compiled =>
        LET c == _cached_compilation
            days == DeclaredDays(pending_events)
            times == DeclaredTimes(pending_events)
        IN  /\ pref_start_date # None => c.start_date = pref_start_date
            /\ pref_end_date # None => c.end_date = pref_end_date
            /\ pref_start_time # None => c.start_time = pref_start_time
            /\ pref_end_time # None => c.end_time = pref_end_time
            /\ (pref_start_date = None /\ days # {})
                  => IsLeast(c.start_date.ordinal, days)
            /\ (pref_end_date = None /\ days # {})
                  => IsGreatest(c.end_date.ordinal, days)
            /\ (pref_start_time = None /\ times # {})
                  => IsLeast(mins(c.start_time), times)
            /\ (pref_end_time = None /\ times # {})
                  => IsGreatest(mins(c.end_time), times)
            /\ c.num_days = (c.end_date.ordinal - c.start_date.ordinal) + 1
            /\ c.num_slots * c.granularity >= Window(c)
            /\ (c.num_slots - 1) * c.granularity < Window(c)
            /\ DOMAIN c.grid = (0..(c.num_slots - 1)) \X (0..(c.num_days - 1))

\* C12 witness: bounds inferred from ranges on several days, with a window that
\* is not a whole number of slots
C12_Witness ==
    /\ Compiled
    /\ last_call.op = "build"
    /\ pref_start_date = None /\ pref_end_date = None
    /\ pref_start_time = None /\ pref_end_time = None
    /\ LET c == _cached_compilation
       IN  /\ Cardinality(DeclaredDays(pending_events)) >= 2
           /\ c.num_days >= 2
           /\ Window(c) % c.granularity # 0
           /\ c.num_slots >= 2
           /\ \E rc \in DOMAIN c.grid : c.grid[rc] # None

\* the declared (date, start, end) ranges: the event id, the day, the start in
\* minutes, the end in minutes (None when null)
DeclaredRanges(pending) ==
    UNION {{[id |-> pending[i].internal_id,
             day |-> pending[i].ranges[j][1].ordinal,
             s |-> pending[i].ranges[j][2].hh * 60 + pending[i].ranges[j][2].mm,
             e |-> IF pending[i].ranges[j][3] = None THEN None
                   ELSE [int |-> pending[i].ranges[j][3].hh * 60
                                    + pending[i].ranges[j][3].mm]] :
               j \in {x \in 1..Len(pending[i].ranges) : Len(pending[i].ranges[x]) = 3}} :
           i \in 1..Len(pending)}

\* the number of slot timestamps s, s + g, ... of the range x strictly before its end
NumStamps(x, g) ==
    IF x.e = None THEN 1
    ELSE IF x.e.int > x.s THEN (x.e.int - x.s + g - 1) \div g
    ELSE 0

\* the row of the clock time t: the slot of its offset forward from the grid's start
RowOf(t, c) == Forward(t, c) \div c.granularity

\* the range x has a slot timestamp before and another at or after the grid's start time
Straddles(x, c) ==
    \E k, l \in 0..(NumStamps(x, c.granularity) - 1) :
        /\ x.s + k * c.granularity < mins(c.start_time)
        /\ x.s + l * c.granularity >= mins(c.start_time)

\* the column of the range x is a column of the compiled agenda c
OnGrid(x, c) ==
    /\ 0 <= x.day - c.start_date.ordinal
    /\ x.day - c.start_date.ordinal < c.num_days

\* the rows a range would occupy if it began at row base and went on row by row
RowsFrom(base, x, c) == {base + k : k \in 0..(NumStamps(x, c.granularity) - 1)}

\* C13 (as claimed): a range with end > start occupies ceil((end - start) / g)
\* consecutive rows beginning at floor((start - grid_start) / g), the difference
\* taken as it is or forward from the grid's start: the k-th slot timestamp is
\* found in row base + k whenever it is found in the grid.
C13_ConsecutiveRows ==
    Compiled =>
        LET c == _cached_compilation
            g == c.granularity
        IN  \A x \in DeclaredRanges(pending_events) :
               (OnGrid(x, c) /\ x.e # None /\ x.e.int > x.s) =>
                  \E base \in {RowOf(x.s, c),
                                -((mins(c.start_time) - x.s + g - 1) \div g)} :
                     \A k \in 0..(NumStamps(x, g) - 1) :
                        \A r \in 0..(c.num_slots - 1) :
                           LET cell == c.grid[<<r, x.day - c.start_date.ordinal>>]
                           IN  (/\ cell # None
                                /\ cell.frac_start.num = Forward(x.s + k * g, c))
                                  => r = base + k

\* C13 (amended): a range contributes the slot timestamps start, start + g, ...
\* strictly before end (one when end is null, none when end is not after start),
\* each at the row of its own offset forward from the grid's start; the
\* non-empty cells are exactly the rows of these timestamps that lie in the
\* grid, each holding a declared timestamp of that row. The rows of a range are
\* the ceil((end - start) / g) consecutive rows from floor(forward offset of
\* start / g) unless the range has timestamps on both sides of the grid's start time.
C13_RangeExpansion ==
    Compiled =>
        LET c == _cached_compilation
            g == c.granularity
            xs == {x \in DeclaredRanges(pending_events) : OnGrid(x, c)}
            Rows(x) == {RowOf(x.s + k * g, c) : k \in 0..(NumStamps(x, g) - 1)}
        IN  /\ \A rc \in DOMAIN c.grid :
                  c.grid[rc] # None <=>
                     \E x \in xs : /\ x.day - c.start_date.ordinal = rc[2]
                                    /\ rc[1] \in Rows(x)
            /\ \A rc \in DOMAIN c.grid :
                  c.grid[rc] # None =>
                     \E x \in xs : \E k \in 0..(NumStamps(x, g) - 1) :
                        /\ x.day - c.start_date.ordinal = rc[2]
                        /\ RowOf(x.s + k * g, c) = rc[1]
                        /\ c.grid[rc] = [id |-> x.id,
                                         frac_start |-> [num |-> Forward(x.s + k * g, c),
                                                         den |-> g]]
            /\ \A x \in xs :
                  /\ x.e = None => Rows(x) = {RowOf(x.s, c)}
                  /\ (x.e # None /\ x.e.int <= x.s) => Rows(x) = {}
                  /\ (x.e # None /\ x.e.int > x.s /\ ~Straddles(x, c)) =>
                        /\ Rows(x) = RowsFrom(RowOf(x.s, c), x, c)
                        /\ Cardinality(Rows(x)) = NumStamps(x, g)

\* C13 witness: a compiled grid with a range that has cells on both sides of
\* the grid's start time, a range with a null end in its one cell, a range of
\* several cells, and a declared range whose end is before its start
C13_Witness ==
    /\ Compiled
    /\ last_call.op = "build"
    /\ LET c == _cached_compilation
           g == c.granularity
           xs == {x \in DeclaredRanges(pending_events) : OnGrid(x, c)}
           Holds(x, k) ==
               LET rc == <<RowOf(x.s + k * g, c), x.day - c.start_date.ordinal>>
               IN  /\ rc[1] < c.num_slots
                   /\ c.grid[rc] = [id |-> x.id,
                                    frac_start |-> [num |-> Forward(x.s + k * g, c),
                                                    den |-> g]]
       IN  /\ \E x \in xs : /\ Straddles(x, c)
                             /\ Holds(x, 0)
                             /\ Holds(x, NumStamps(x, g) - 1)
           /\ \E x \in xs : x.e = None /\ Holds(x, 0)
           /\ \E x \in xs : /\ ~Straddles(x, c) /\ NumStamps(x, g) >= 2
                             /\ Holds(x, 0) /\ Holds(x, 1)
           /\ \E x \in xs : x.e # None /\ x.e.int < x.s

\* C14 (as claimed): build() called without a granularity succeeds and returns
\* an agenda compiled with a granularity of 15 minutes.
C14_DefaultGranularity ==
    [][(last_call'.op = "build" /\ last_call'.arg = None) =>
          /\ last_call'.outcome.kind = "ok"
          /\ held'.granularity = 15]_vars

-----------------------------------------------------------------------------
(* The render grid: where the text of an event is placed *)

\* the documents the generate_latex_* calls have returned
Documents ==
    {x.outcome.value : x \in {y \in {last_tikz, last_legacygrid} :
                                 y # None /\ y.outcome.kind = "ok"}}

\* the cells of the document doc that hold the event eid, and those that carry
\* its text
CellsOf(doc, eid) == {rc \in DOMAIN doc.cells : doc.cells[rc].id = [int |-> eid]}
AnchorsOf(doc, eid) ==
    {rc \in DOMAIN doc.cells : doc.cells[rc].text # None /\ doc.cells[rc].text.eid = eid}

\* the events that hold at least one cell of doc
EventsIn(doc) == {doc.cells[rc].id.int : rc \in {x \in DOMAIN doc.cells : doc.cells[x].id # None}}

\* C15: in every document rendered from a compiled grid, each event that
\* occupies at least one cell has exactly one cell carrying its text, and no
\* other cell carries a text
C15_SingleAnchor ==
    \A doc \in Documents :
        /\ \A eid \in EventsIn(doc) : Cardinality(AnchorsOf(doc, eid)) = 1
        /\ \A rc \in DOMAIN doc.cells :
              doc.cells[rc].text # None => doc.cells[rc].text.eid \in EventsIn(doc)

\* the rows of the unbroken run of the event eid in the column of rc that
\* contains rc (none when the cell at rc is not a cell of eid)
RunRows(doc, eid, rc) ==
    {r \in {x[1] : x \in DOMAIN doc.cells} :
        \A k \in Min({r, rc[1]})..Max({r, rc[1]}) :
            doc.cells[<<k, rc[2]>>].id = [int |-> eid]}

\* C16: the span stored on a cell that carries a text is 1 when the unbroken
\* run of that event in the column, around the cell, has one cell, and minus
\* the number of cells of that run otherwise; every cell without text has span 1
C16_SpanMagnitude ==
    \A doc \in Documents : \A rc \in DOMAIN doc.cells :
        LET cell == doc.cells[rc]
        IN  IF cell.text = None THEN cell.span = 1
            ELSE LET n == Cardinality(RunRows(doc, cell.text.eid, rc))
                 IN  cell.span = IF n = 1 THEN 1 ELSE -n

\* the event eid holds exactly the rows t..u of the columns a..b of doc
IsRectangle(doc, eid, t, u, a, b) ==
    /\ t <= u /\ a <= b
    /\ CellsOf(doc, eid) = (t..u) \X (a..b)

\* C17: an event whose cells are exactly the rows t..u of the columns a..b has
\* its text on the cell (u, floor((a+b)/2)) and nowhere else, with x_offset_cols
\* 0.5 when b - a is odd and 0 otherwise, span 1 when t = u and -(u-t+1)
\* otherwise, and the frac_start of the cell (t, floor((a+b)/2))
C17_RectangleAnchor ==
    \A doc \in Documents : \A eid \in EventsIn(doc) :
        \A t, u \in {x[1] : x \in DOMAIN doc.cells}, a, b \in {x[2] : x \in DOMAIN doc.cells} :
            IsRectangle(doc, eid, t, u, a, b) =>
                LET m == (a + b) \div 2
                    cell == doc.cells[<<u, m>>]
                IN  /\ AnchorsOf(doc, eid) = {<<u, m>>}
                    /\ cell.text.x_offset_cols =
                          IF (b - a) % 2 = 1 THEN [num |-> 1, den |-> 2]
                          ELSE [num |-> 0, den |-> 1]
                    /\ cell.span = IF t = u THEN 1 ELSE -(u - t + 1)
                    /\ cell.text.frac_start = doc.cells[<<t, m>>].frac_start

-----------------------------------------------------------------------------
(* render_tikz: the segments and their borders *)

\* the call of generate_latex_tikz that returned a document, if the last one did
TikzCalls == {x \in {last_tikz} : x # None /\ x.outcome.kind = "ok"}

Segments(doc) == {doc.segments[i] : i \in DOMAIN doc.segments}

\* the y coordinate of the boundary below the last row of the segment seg
Boundary(seg) == seg.end_r * 1000 * held.granularity

\* the segment seg ends where its event ends in its column: at the last row of
\* the grid or above a cell that is not the event's
EndsEvent(doc, seg) ==
    \/ seg.end_r >= held.num_slots
    \/ doc.cells[<<seg.end_r, seg.c>>].id # seg.id

LegacyCalls == {x \in {last_legacygrid} : x # None /\ x.outcome.kind = "ok"}

\* C19: in render_tikz every segment starting at row 0 is a true top and gets
\* a top border, every segment in column 0 gets a left border, every segment
\* in the last column gets a right border, and every segment ending at the
\* last row is a true bottom; in render_legacy_grid every cell in column 0 has
\* a THICK left border, every cell in the last column a THICK right border and
\* every cell in the last row a THICK bottom border
C19_GridEdges ==
    /\ \A x \in TikzCalls : \A seg \in Segments(x.outcome.value) :
          /\ seg.start_r = 0 => seg.main_is_top /\ seg.top # None
          /\ seg.c = 0 => seg.left # None /\ seg.left.x1 = 0
          /\ seg.c = held.num_days - 1 => seg.right # None
          /\ seg.end_r = held.num_slots =>
                /\ seg.main_is_bottom
                /\ seg.bottom # None <=> ~seg.open_ended
                /\ seg.open_ended => seg.fill.box.y2 >= Boundary(seg)
    /\ \A x \in LegacyCalls : \A rc \in DOMAIN x.outcome.value.cells :
          LET cell == x.outcome.value.cells[rc]
          IN  /\ rc[2] = 0 => cell.border_l = "THICK"
              /\ rc[2] = held.num_days - 1 => cell.border_r = "THICK"
              /\ rc[1] = held.num_slots - 1 => cell.border_b = "THICK"

\* both documents have been generated from a grid with an event in the first
\* row and the first column, one in the last column and one in the last row,
\* and one event of more than one cell that touches no edge of the grid with
\* one of its cells
C19_Witness ==
    /\ \E x \in TikzCalls :
          /\ \E seg \in Segments(x.outcome.value) : seg.start_r = 0 /\ seg.c = 0
          /\ \E seg \in Segments(x.outcome.value) :
                seg.c = held.num_days - 1 /\ seg.end_r = held.num_slots
          /\ \E seg \in Segments(x.outcome.value) :
                seg.c > 0 /\ seg.c < held.num_days - 1 /\ seg.start_r > 0
                   /\ seg.right = None
    /\ \E x \in LegacyCalls :
          /\ \E rc \in DOMAIN x.outcome.value.cells :
                x.outcome.value.cells[rc].border_r = "THIN"
          /\ \E r \in 0..(held.num_slots - 1) :
                /\ x.outcome.value.cells[<<r, 0>>].id # None
                /\ x.outcome.value.cells[<<r, held.num_days - 1>>].id # None
                /\ x.outcome.value.cells[<<r, 0>>].id
                      = x.outcome.value.cells[<<r, 1>>].id
          /\ \E c \in 0..(held.num_days - 1) :
                /\ x.outcome.value.cells[<<held.num_slots - 1, c>>].id # None
                /\ x.outcome.value.cells[<<held.num_slots - 2, c>>].id
                      = x.outcome.value.cells[<<held.num_slots - 1, c>>].id

\* the cells (r, c) and (r, c + 1) of doc hold the same event
SameEvent(doc, r, c) ==
    /\ <<r, c + 1>> \in DOMAIN doc.cells
    /\ doc.cells[<<r, c>>].id # None
    /\ doc.cells[<<r, c>>].id = doc.cells[<<r, c + 1>>].id

\* the segment of column c that contains the row r
SegmentAt(doc, r, c) ==
    CHOOSE seg \in Segments(doc) : seg.c = c /\ seg.start_r <= r /\ r < seg.end_r

\* the row r is the last row of the run in column c of the event at (r, c)
LastOfRun(doc, r, c) ==
    \/ r + 1 >= held.num_slots
    \/ doc.cells[<<r + 1, c>>].id # doc.cells[<<r, c>>].id

\* the vertical line runs along the row r for some length
Over(line, r) ==
    /\ Min({line.y1, line.y2}) < (r + 1) * 1000 * held.granularity
    /\ Max({line.y1, line.y2}) > r * 1000 * held.granularity

-----------------------------------------------------------------------------
(* Rendering and the compiled model *)

-----------------------------------------------------------------------------
(* SpecBounds: declarations with well-formed and malformed strings, compiled *)
(* by builders with given and with inferred bounds                           *)

\* no bounds, and Monday to Wednesday from 09:00 to 10:00
BoundsCtorArgs ==
    { NoPrefs,
      [start_date_str |-> Mon, end_date_str |-> Wed,
       start_time |-> TimeStr(9, 0), end_time |-> TimeStr(10, 0)] }

\* a date written as "01.01.2024" and the time "09:60"
MalformedDate == DateStr("%d.%m.%Y", 1)
MalformedTime == TimeStr(9, 60)

BoundsTimeRangeArgs ==
    { [kind |-> "list", val |-> << <<Mon, TimeStr(9, 0), TimeStr(9, 30)>> >>],
      \* no end time, at the latest time declared here
      [kind |-> "list", val |-> << <<Mon, TimeStr(9, 30), None>> >>],
      \* off the slot boundaries, on the third day
      [kind |-> "list", val |-> << <<Wed, TimeStr(9, 10), TimeStr(9, 40)>> >>],
      \* no end time, a quarter of an hour before the grid of the given bounds begins
      [kind |-> "tuple", val |-> <<Tue, TimeStr(8, 45), None>>],
      [kind |-> "list", val |-> << <<Tue, TimeStr(9, 0), TimeStr(9, 15)>>,
                                   <<MalformedDate, TimeStr(9, 0), TimeStr(9, 30)>> >>],
      [kind |-> "tuple", val |-> <<Tue, MalformedTime, None>>],
      [kind |-> "tuple", val |-> <<Tue, TimeStr(9, 0), MalformedTime>>] }

BoundsEventArgs == {e \in EventArgs : ~e.open_ended}
BoundsGranularityArgs == {[int |-> 15]}

InitBounds == \E a \in BoundsCtorArgs : init(a)

BoundsAddEvent ==
    /\ MayDeclare
    /\ MayAllocate(None)
    /\ \E a \in BoundsEventArgs, tr \in BoundsTimeRangeArgs : add_event(a, tr, None)
BoundsExtendEvent ==
    \E id \in (DOMAIN events) \cup {event_counter + 1}, tr \in BoundsTimeRangeArgs :
        /\ id \in DOMAIN events => MayDeclare
        /\ extend_event(id, tr)
BoundsBuild ==
    /\ MayCompile
    /\ \E g \in BoundsGranularityArgs, today \in Todays : build(g, today)
    /\ UNCHANGED rendered

NextBounds ==
    \/ BoundsAddEvent
    \/ BoundsExtendEvent
    \/ BoundsBuild

SpecBounds == InitBounds /\ [][NextBounds]_vars

-----------------------------------------------------------------------------
(* Malformed strings, inferred bounds, the size of the grid *)

\* the builder was constructed without start/end date and start/end time
NoBoundsGiven ==
    /\ pref_start_date = None /\ pref_end_date = None
    /\ pref_start_time = None /\ pref_end_time = None

\* C28: when no bounds were given to the constructor, every slot timestamp of
\* every declared range, with an end time or without one, falls on a cell of
\* the compiled grid, and that cell is not empty
C28_InferredBoundsContain ==
    (Compiled /\ NoBoundsGiven) =>
        LET c == _cached_compilation
        IN  \A w \in DeclaredStamps(pending_events, c.granularity) :
                /\ InGrid(CellOf(w, c), c)
                /\ c.grid[CellOf(w, c)] # None

\* some range of the declaration p has a date or a time that does not parse
Malformed(p) ==
    \E j \in 1..Len(entries_of(p.ranges)) :
        parse_entry(entries_of(p.ranges)[j]).kind = "raise"

\* C22: no pending declaration has a malformed date or time string (the
\* add_event or extend_event call that supplied one has failed and recorded
\* nothing), and a build with a granularity succeeds
C22_MalformedRejected ==
    /\ \A i \in 1..Len(pending_events) : ~Malformed(pending_events[i])
    /\ (last_call.op = "build" /\ last_call.arg # None /\ last_call.arg.int > 0)
          => last_call.outcome.kind = "ok"

-----------------------------------------------------------------------------
(* render_tikz: the walk down a column *)

\* the segments of column c of doc, in the order the walk produced them
SegmentsOfColumn(doc, c) == SelectSeq(doc.segments, LAMBDA seg : seg.c = c)

\* the rows of the segment seg
RowsOf(seg) == seg.start_r .. (seg.end_r - 1)

\* the bridges of the event seg.id at the row r of the column of seg are those
\* at the first row of seg
SameBridges(doc, seg, r) ==
    /\ bridge_right(doc.cells, seg.id, r, seg.c, held)
          = bridge_right(doc.cells, seg.id, seg.start_r, seg.c, held)
    /\ bridge_left(doc.cells, seg.id, r, seg.c)
          = bridge_left(doc.cells, seg.id, seg.start_r, seg.c)

\* C23: in every column the walk of render_tikz ends, its segments are not
\* empty, pairwise disjoint and in increasing row order, and every occupied
\* cell of the column lies in exactly one segment, of the same event, while no
\* empty cell lies in any; at every row of a segment the event id and the two
\* bridge flags are those of its first row, and the segment ends at the end of
\* the grid or at the first row where the id or a flag differs
C23_SegmentWalk ==
    \A x \in TikzCalls : \A c \in 0..(held.num_days - 1) :
        LET doc == x.outcome.value
            segs == SegmentsOfColumn(doc, c)
        IN  /\ \A i \in 1..Len(segs) :
                  /\ 0 <= segs[i].start_r
                  /\ segs[i].start_r < segs[i].end_r
                  /\ segs[i].end_r <= held.num_slots
                  /\ \A j \in (i + 1)..Len(segs) : segs[i].end_r <= segs[j].start_r
                  /\ \A r \in RowsOf(segs[i]) :
                        /\ doc.cells[<<r, c>>].id = segs[i].id
                        /\ SameBridges(doc, segs[i], r)
                  /\ \/ segs[i].end_r = held.num_slots
                     \/ doc.cells[<<segs[i].end_r, c>>].id # segs[i].id
                     \/ ~SameBridges(doc, segs[i], segs[i].end_r)
                  /\ segs[i].fill.box.x1 = 1000 * c
                  /\ segs[i].fill.box.x2 <= 1000 * (c + 1)
            /\ \A r \in 0..(held.num_slots - 1) :
                  Cardinality({i \in 1..Len(segs) : r \in RowsOf(segs[i])})
                     = IF doc.cells[<<r, c>>].id # None THEN 1 ELSE 0

\* a column with two segments of one event, the upper one ending where a
\* bridge begins or ends, and an empty cell in the same document
C23_Witness ==
    \E x \in TikzCalls : \E c \in 0..(held.num_days - 1) :
        LET doc == x.outcome.value
            segs == SegmentsOfColumn(doc, c)
        IN  /\ \E i \in 1..Len(segs) :
                  /\ segs[i].end_r < held.num_slots
                  /\ doc.cells[<<segs[i].end_r, c>>].id = segs[i].id
                  /\ ~SameBridges(doc, segs[i], segs[i].end_r)
            /\ \E rc \in DOMAIN doc.cells : doc.cells[rc].id = None

-----------------------------------------------------------------------------
(* render_tikz: the patch lines on the seams *)

\* the event of seg does not go on below the last row of seg in column c
TrueBottomAt(doc, seg, c) ==
    \/ seg.end_r >= held.num_slots
    \/ doc.cells[<<seg.end_r, c>>].id # seg.id

\* the bottom edge of a true bottom of the event of seg at the end row of seg:
\* the boundary moved by the extension or by the gap
AdjustedBottom(seg, kw) ==
    IF seg.open_ended
    THEN Boundary(seg) + (1000 * held.granularity * kw.ext_y_pct) \div 1000
    ELSE Boundary(seg) - (1000 * held.granularity * kw.gap_y_pct) \div 1000

\* the vertical line at x between the bottom edges y1 and y2
PatchBetween(x, y1, y2) == Line(x, Min({y1, y2}), x, Max({y1, y2}))

C24_LeftPatch ==
    \E x \in TikzCalls : \E seg \in Segments(x.outcome.value) :
        seg.patch_left # None /\ seg.open_ended

\* a segment of a closed event above a seam, bridging to a column where the
\* event ends, without patch because gap_y_pct is zero
C24_ZeroGap ==
    \E x \in TikzCalls : \E seg \in Segments(x.outcome.value) :
        /\ x.kw.gap_y_pct = 0
        /\ seg.bridge_fill # None /\ seg.seam = None /\ ~seg.open_ended
        /\ ~TrueBottomAt(x.outcome.value, seg, seg.c)
        /\ TrueBottomAt(x.outcome.value, seg, seg.c + 1)

-----------------------------------------------------------------------------
(* _create_render_grid: the column an event is anchored in *)

\* the calls of generate_latex_* made so far, whatever their outcome
RenderCalls == {x \in {last_tikz, last_legacygrid} : x # None}

\* what the renderer reads through the CompiledAgenda it was given
Rendering == View(held, events, colors, special_events)

\* the cells the event eid occupies in the compiled grid, and its topmost row
Occupied(eid) == {rc \in DOMAIN held.grid : held.grid[rc] # None /\ held.grid[rc].id = eid}
TopRow(eid) == Min({rc[1] : rc \in Occupied(eid)})
TopRowCols(eid) == {rc[2] : rc \in {x \in Occupied(eid) : x[1] = TopRow(eid)}}

\* floor((min_day + max_day) / 2) over the columns of the event eid
CandidateCol(eid) ==
    (Min({rc[2] : rc \in Occupied(eid)}) + Max({rc[2] : rc \in Occupied(eid)})) \div 2

\* the column centred among those of the event's topmost row
CentredTopCol(eid) ==
    Min(TopRowCols(eid)) + (Max(TopRowCols(eid)) - Min(TopRowCols(eid))) \div 2

\* the events with a cell in the compiled grid
Placed == {held.grid[rc].id : rc \in {x \in DOMAIN held.grid : held.grid[x] # None}}

\* C25: when a document has been rendered and the candidate anchor column of
\* an event does not carry the event at the event's topmost row, the resolver
\* anchors the event at that row in the column centred among the columns
\* occupied at that row, and the event occupies that column at that row
C25_FallbackColumn ==
    (RenderCalls # {} /\ held # None) =>
        \A eid \in Placed :
            <<TopRow(eid), CandidateCol(eid)>> \notin Occupied(eid) =>
                LET a == resolve(merged_grid(Rendering), eid, held.num_slots)
                IN  /\ a.visual_start_row = TopRow(eid)
                    /\ a.center_col = CentredTopCol(eid)
                    /\ <<TopRow(eid), a.center_col>> \in Occupied(eid)

\* C27: _create_render_grid ends without error for every compiled grid (no
\* generate_latex_* call ends with the TypeError it raises), and in every
\* document each cell that carries a text holds the event whose text it is
C27_TextInOwnCell ==
    /\ \A x \in RenderCalls : x.outcome # Raise("TypeError")
    /\ \A doc \in Documents : \A rc \in DOMAIN doc.cells :
          doc.cells[rc].text # None => doc.cells[rc].id = [int |-> doc.cells[rc].text.eid]

-----------------------------------------------------------------------------
(* render_tikz: where the label of an event is put *)

\* the labels of the document doc
Labels(doc) == {doc.labels[i] : i \in DOMAIN doc.labels}

\* the label l lies in a cell of its own event
InOwnCell(doc, l) == doc.cells[<<l.r, l.c>>].id = [int |-> l.eid]

\* the top edge and the bottom edge the stitcher draws for the run of the
\* event of l in the column of l: those of the fills of the first and of the
\* last segment of the run
DrawnTop(doc, l) ==
    SegmentAt(doc, Min(RunRows(doc, l.eid, <<l.r, l.c>>)), l.c).fill.box.y1
DrawnBottom(doc, l) ==
    SegmentAt(doc, Max(RunRows(doc, l.eid, <<l.r, l.c>>)), l.c).fill.box.y2

\* C26: the y position of a label is the midpoint of the top edge and the
\* bottom edge drawn for the run of its event in the anchor column, whether or
\* not the event starts on a granularity boundary, and its x position is the
\* centre of the anchor column shifted right by x_offset_cols columns
C26_LabelCentred ==
    \A x \in TikzCalls : \A l \in Labels(x.outcome.value) :
        LET doc == x.outcome.value
            x_off == doc.cells[<<l.r, l.c>>].text.x_offset_cols
        IN  InOwnCell(doc, l) =>
               /\ l.y_center = [num |-> DrawnTop(doc, l) + DrawnBottom(doc, l), den |-> 2]
               /\ l.x_center = [num |-> 2 * 1000 * l.c + 1000
                                           + (2 * 1000 * x_off.num) \div x_off.den,
                                den |-> 2]

-----------------------------------------------------------------------------
(* The size of the compiled grid, and the granularity of a repeated build *)

\* C29: the CompiledAgenda of every successful build has at least one slot
\* and at least one day
C29_GridNotEmpty ==
    Compiled => _cached_compilation.num_slots >= 1 /\ _cached_compilation.num_days >= 1

\* the minutes from start_time to end_time of the CompiledAgenda c, end_time
\* being on the next day when it is not after start_time
WindowMinutes(c) ==
    LET t_start == c.start_time.hour * 60 + c.start_time.minute
        t_end == c.end_time.hour * 60 + c.end_time.minute
    IN  IF t_end <= t_start THEN t_end + 24 * 60 - t_start ELSE t_end - t_start

\* C30: the CompiledAgenda a build(g) call returns has granularity g, and its
\* grid has the slots of g minutes that cover the time window, whatever
\* granularities the builds before it were given
C30_GranularityOfBuild ==
    (last_call.op = "build" /\ last_call.outcome.kind = "ok" /\ last_call.arg # None) =>
        LET g == last_call.arg.int
        IN  /\ held.granularity = g
            /\ held.num_slots * g >= WindowMinutes(held)
            /\ (held.num_slots - 1) * g < WindowMinutes(held)

=============================================================================
